---------------------------- MODULE Spec2Model ----------------------------
(***************************************************************************)
(* ExecutionQueue of misc/codereview/gclient_utils.py: a queue of          *)
(* WorkItems with requirements, run by flush() either inside the calling   *)
(* thread (jobs = 1) or on one _Worker thread per item (jobs > 1).         *)
(*                                                                         *)
(* The control thread is the caller of flush().  It holds ready_cond from  *)
(* line 582 to line 618 except while it is inside ready_cond.wait(10).     *)
(* A worker runs its item without the lock, puts a raised exception into   *)
(* the Queue `exceptions` (which has its own mutex), and only then takes   *)
(* ready_cond to notify.  Thread.isAlive() turns false some time after     *)
(* _Worker.run returned.                                                   *)
(***************************************************************************)
EXTENDS Naturals, Sequences, FiniteSets

\* Number of WorkItem objects the callers create.
NItems == 3
\* Largest `jobs` an ExecutionQueue is constructed with.
MaxJobs == 2
\* Number of flush() calls made on one queue.
MaxFlushes == 2

Ids == 1..NItems
\* WorkItem.name: the strings used as names; a requirement may name an item
\* that is never enqueued.
Names == 1..NItems
Jobs == 1..MaxJobs

VARIABLES
  jobs,        \* self.jobs
  item,        \* the WorkItem objects created so far: id -> [name, requirements]
  queued,      \* self.queued: list of WorkItem (ids)
  ran,         \* self.ran: list of names
  running,     \* self.running: list of _Worker threads (id of the thread's item)
  exceptions,  \* self.exceptions: Queue.Queue of exc_info (id of the raising item)
  thread,      \* state of the _Worker thread of each item
  owner,       \* which thread holds ready_cond
  pc,          \* where the control thread is in flush()
  cur,         \* the item being run inside the control thread (jobs = 1)
  result,      \* how the last flush() ended
  flushes,     \* number of flush() calls so far
  started,     \* number of times each item's run() was started
  raised,      \* items whose run() raised, in the order they raised
  raisedNow,   \* items whose run() raised during the current flush()
  unmet,       \* items queued with a requirement missing from ran when a failure was captured
  born,        \* number of flush() calls made before each item was enqueued
  inrun,       \* items enqueued from inside the run() of another item
  bare,        \* collections changed by a thread that did not hold ready_cond
  aborted,     \* items whose run() ended a worker with an exception no handler caught
  sink,        \* self.progress: the Progress instance, if any
  seen,        \* the flush() in progress found self.exceptions non-empty at line 587
  doomed,      \* items that were in self.queued after the control thread saw a failure
  notified     \* a notifyAll reached the control thread inside ready_cond.wait(10)

vars == <<jobs, item, queued, ran, running, exceptions, thread, owner, pc, cur,
          result, flushes, started, raised, raisedNow, unmet, born, inrun, bare,
          aborted, sink, seen, doomed, notified>>

NoItem == [name |-> 0, requirements |-> {}]

\* How a flush() call ends: "return", "raise" (the captured exc_info of item
\* `of`, line 625), "propagate" (the exception of item `of`, run inside the
\* control thread), "AssertNotRunning" (the assertion of line 620 failed) or
\* "AssertNotRan" (that of line 641); "none" while it has not ended.
Outcome(k, i) == [kind |-> k, of |-> i]

Range(s) == {s[k] : k \in 1..Len(s)}

\* RemoveAt leaving the list as it is.
RemoveAtKeeps(s, k) == s

\* list.pop(k) (line 605), k counted from 1: the list without its k-th element.
RemoveAt(s, k) == SubSeq(s, 1, k - 1) \o SubSeq(s, k + 1, Len(s))

\* The WorkItem objects of the run, and those created (enqueued) so far.
Items == DOMAIN item
Created == {i \in Items : item[i].name # 0}

--------------------------------------------------------------------------
\* Progress.update (progress.py lines 34-55) for a sink p: self._done += inc.
ProgressUpdate(p, inc) == [p EXCEPT !.done = @ + inc]

\* Progress.end (progress.py lines 57-73): `ended` counts the calls.
ProgressEnd(p) == [p EXCEPT !.ended = @ + 1]

\* __init__ (lines 541-560) of a queue for the WorkItem objects `ids`, with a
\* Progress instance (progress) or with None; update(0) leaves the sink as
\* Progress.__init__ made it.
InitQueue(ids, progress) ==
  /\ jobs \in Jobs
  /\ item = [i \in ids |-> NoItem]
  /\ queued = <<>>
  /\ ran = <<>>
  /\ running = <<>>
  /\ exceptions = <<>>
  /\ thread = [i \in ids |-> "none"]
  /\ owner = "none"
  /\ pc = "idle"
  /\ cur = 0
  /\ result = Outcome("none", 0)
  /\ flushes = 0
  /\ started = [i \in ids |-> 0]
  /\ raised = <<>>
  /\ raisedNow = {}
  /\ unmet = {}
  /\ born = [i \in ids |-> 0]
  /\ inrun = {}
  /\ bare = {}
  /\ aborted = {}
  /\ seen = FALSE
  /\ doomed = {}
  /\ notified = FALSE
  /\ sink = IF progress THEN ProgressUpdate([on |-> TRUE, total |-> 0, done |-> 0, ended |-> 0], 0)
                         ELSE [on |-> FALSE, total |-> 0, done |-> 0, ended |-> 0]

\* A queue constructed without a progress sink.
Init == InitQueue(Ids, FALSE)

--------------------------------------------------------------------------
\* The WorkItem objects a caller may hand to enqueue(): a new object with a
\* name of its own (names are unique) and any list of requirement names.
NewItems == {[name |-> n, requirements |-> rs] : n \in {Cardinality(Created) + 1}, rs \in SUBSET Names}

\* The identity of the WorkItem object handed to enqueue(): objects are
\* numbered in the order they are enqueued.
NewId == Cardinality(Created) + 1

\* Ready with the requirement loop leaving on the first requirement that is met.
ReadyAny(i) ==
  \/ item[i].requirements = {}
  \/ \E r \in item[i].requirements : r \in Range(ran)

\* Lines 598-603: every requirement of the item is in self.ran.
Ready(i) == \A r \in item[i].requirements : r \in Range(ran)

\* Line 634: t.isAlive().
IsAlive(t) == thread[t] # "dead"

\* FirstReady without the requirement check: the head of self.queued.
FirstQueued == IF queued # <<>> THEN 1 ELSE 0

\* FirstReady with the scan of self.queued made from its end.
LastReady ==
  IF \E k \in 1..Len(queued) : Ready(queued[k])
  THEN CHOOSE k \in 1..Len(queued) :
         /\ Ready(queued[k])
         /\ \A j \in (k + 1)..Len(queued) : ~Ready(queued[j])
  ELSE 0

\* FirstReady looking at the head of self.queued only.
FirstReadyHeadOnly == IF queued # <<>> /\ Ready(queued[1]) THEN 1 ELSE 0

\* Lines 597-609: the index in self.queued of the first item that can run, 0 if
\* the scan finds none.
FirstReady ==
  IF \E k \in 1..Len(queued) : Ready(queued[k])
  THEN CHOOSE k \in 1..Len(queued) :
         /\ Ready(queued[k])
         /\ \A j \in 1..(k - 1) : ~Ready(queued[j])
  ELSE 0

\* CannotStart without the comparison of self.jobs with len(self.running).
CannotStartUnbounded == queued = <<>> /\ running = <<>>

\* Lines 591-592: no more worker threads, or can't queue anything.
CannotStart ==
  \/ (queued = <<>> /\ running = <<>>)
  \/ jobs = Len(running)

\* FlushTerminated without the assert statement of line 641 (as python -O
\* runs it): line 642 skips a name that is already in self.ran.
RECURSIVE FlushTerminatedNoAssert(_, _, _)
FlushTerminatedNoAssert(ts, keep, r) ==
  IF ts = <<>> THEN [running |-> keep, ran |-> r, ok |-> TRUE, updates |-> 0]
  ELSE LET t == Head(ts) IN
       IF IsAlive(t) THEN FlushTerminatedNoAssert(Tail(ts), Append(keep, t), r)
       ELSE [FlushTerminatedNoAssert(Tail(ts), keep,
                IF item[t].name \in Range(r) THEN r ELSE Append(r, item[t].name))
               EXCEPT !.updates = @ + 1]

\* Lines 629-643: _flush_terminated_threads over the threads `ts` still to look
\* at; `keep` is the new self.running, `r` the new self.ran.  ok is FALSE when
\* the assertion of line 641 fails, which leaves the loop at once.  updates
\* is the number of terminated threads line 640 is reached for.
RECURSIVE FlushTerminated(_, _, _)
FlushTerminated(ts, keep, r) ==
  IF ts = <<>> THEN [running |-> keep, ran |-> r, ok |-> TRUE, updates |-> 0]
  ELSE LET t == Head(ts) IN
       IF IsAlive(t) THEN FlushTerminated(Tail(ts), Append(keep, t), r)
       ELSE IF item[t].name \in Range(r)
            THEN [running |-> keep, ran |-> r, ok |-> FALSE, updates |-> 1]
            ELSE [FlushTerminated(Tail(ts), keep, Append(r, item[t].name))
                    EXCEPT !.updates = @ + 1]

\* Line 587: not self.exceptions.empty().
ExceptionLogged == exceptions # <<>>

\* ExceptionsGet taking the newest entry, as a stack would.
ExceptionsGetLast == exceptions[Len(exceptions)]

\* Line 624: self.exceptions.get() takes the oldest entry of the FIFO queue.
ExceptionsGet == Head(exceptions)

\* ExceptionsPut logging the exc_info twice.
ExceptionsPutTwice(i) == Append(Append(exceptions, i), i)

\* Line 680: work_queue.exceptions.put(sys.exc_info()).
ExceptionsPut(i) == Append(exceptions, i)

\* Drained without the test of self.queued.
DrainedRunningOnly == running = <<>>

\* Drained without the test of self.running.
DrainedQueueOnly == queued = <<>>

\* Lines 611 and 620: nothing queued and nothing running.
Drained == queued = <<>> /\ running = <<>>

\* The collections changed so far by a thread without ready_cond, after a
\* step that changes the collections cs while its thread holds the lock
\* (held) or does not.
Unlocked(cs, held) == IF held THEN bare ELSE bare \cup cs

\* The flush() in progress has seen a failure in self.exceptions.
FailureSeen == seen /\ pc # "idle"

\* ready_cond.notifyAll() (lines 575 and 685): it wakes the control thread if
\* that thread is inside ready_cond.wait, and is lost otherwise.
NotifyAll == notified \/ pc = "wait"

\* ready_cond.wait(10), line 615: the 10 seconds may be over at any moment.
WaitTimedOut == TRUE

\* Lines 570-574: the sink after enqueue() made self.queued the list q.
EnqueueSink(q) ==
  IF sink.on
  THEN ProgressUpdate([sink EXCEPT !.total = (Len(q) + Len(ran) + Len(running)) + 1], 0)
  ELSE sink

--------------------------------------------------------------------------
\* enqueue (lines 562-577), called by the program between two flush() calls.
Enqueue(d) ==
  /\ pc = "idle"
  /\ owner = "none"
  /\ Cardinality(Created) < Cardinality(Items)
  /\ item' = [item EXCEPT ![NewId] = d]
  /\ queued' = Append(queued, NewId)
  /\ born' = [born EXCEPT ![NewId] = flushes]
  /\ inrun' = inrun
  /\ bare' = Unlocked({"queued"}, TRUE)
  /\ sink' = EnqueueSink(queued')
  /\ doomed' = IF FailureSeen THEN doomed \cup {NewId} ELSE doomed
  /\ notified' = NotifyAll
  /\ UNCHANGED <<jobs, ran, running, exceptions, thread, owner, pc, cur, result,
                 flushes, started, raised, raisedNow, unmet, aborted, seen>>

\* enqueue (lines 562-577), called from the run() of item i on its worker
\* thread: it gets ready_cond only while the control thread does not hold it.
WorkerEnqueue(i, d) ==
  /\ thread[i] = "run"
  /\ owner = "none"
  /\ Cardinality(Created) < Cardinality(Items)
  /\ item' = [item EXCEPT ![NewId] = d]
  /\ queued' = Append(queued, NewId)
  /\ born' = [born EXCEPT ![NewId] = flushes]
  /\ inrun' = inrun \cup {NewId}
  /\ bare' = Unlocked({"queued"}, TRUE)
  /\ sink' = EnqueueSink(queued')
  /\ doomed' = IF FailureSeen THEN doomed \cup {NewId} ELSE doomed
  /\ notified' = NotifyAll
  /\ UNCHANGED <<jobs, ran, running, exceptions, thread, owner, pc, cur, result,
                 flushes, started, raised, raisedNow, unmet, aborted, seen>>

\* enqueue (lines 562-577), called from the run() of the item that runs inside
\* the control thread (jobs = 1): ready_cond is taken a second time by its owner.
SyncEnqueue(d) ==
  /\ pc = "sync"
  /\ owner = "ctl"
  /\ Cardinality(Created) < Cardinality(Items)
  /\ item' = [item EXCEPT ![NewId] = d]
  /\ queued' = Append(queued, NewId)
  /\ born' = [born EXCEPT ![NewId] = flushes]
  /\ inrun' = inrun \cup {NewId}
  /\ bare' = Unlocked({"queued"}, TRUE)
  /\ sink' = EnqueueSink(queued')
  /\ doomed' = IF FailureSeen THEN doomed \cup {NewId} ELSE doomed
  /\ notified' = NotifyAll
  /\ UNCHANGED <<jobs, ran, running, exceptions, thread, owner, pc, cur, result,
                 flushes, started, raised, raisedNow, unmet, aborted, seen>>

\* flush, lines 579-583: take ready_cond and enter the loop.
FlushBegin ==
  /\ pc = "idle"
  /\ owner = "none"
  /\ flushes < MaxFlushes
  /\ flushes' = flushes + 1
  /\ owner' = "ctl"
  /\ pc' = "check"
  /\ result' = Outcome("none", 0)
  /\ raisedNow' = {}
  /\ seen' = FALSE
  /\ UNCHANGED <<jobs, item, queued, ran, running, exceptions, thread, cur,
                 started, raised, unmet, born, inrun, bare, aborted, sink, doomed, notified>>

\* Check without the flush of self.queued.
CheckKeepsQueue ==
  /\ pc = "check"
  /\ pc' = "reap"
  /\ UNCHANGED <<jobs, item, queued, ran, running, exceptions, thread, owner, cur,
                 result, flushes, started, raised, raisedNow, unmet, born, inrun, bare, aborted, sink, seen, doomed, notified>>

\* Check flushing self.queued only the first time it finds an exception.
CheckSeesOnce ==
  /\ pc = "check"
  /\ queued' = IF ExceptionLogged /\ ~seen THEN <<>> ELSE queued
  /\ bare' = IF ExceptionLogged THEN Unlocked({"queued"}, owner = "ctl") ELSE bare
  /\ seen' = (seen \/ ExceptionLogged)
  /\ doomed' = IF ExceptionLogged THEN doomed \cup Range(queued) ELSE doomed
  /\ pc' = "reap"
  /\ UNCHANGED <<jobs, item, ran, running, exceptions, thread, owner, cur, result,
                 flushes, started, raised, raisedNow, unmet, born, inrun, aborted, sink, notified>>

\* flush, lines 587-589: flush the queue when an exception is logged.
Check ==
  /\ pc = "check"
  /\ queued' = IF ExceptionLogged THEN <<>> ELSE queued
  /\ bare' = IF ExceptionLogged THEN Unlocked({"queued"}, owner = "ctl") ELSE bare
  /\ seen' = (seen \/ ExceptionLogged)
  /\ doomed' = IF ExceptionLogged THEN doomed \cup Range(queued) ELSE doomed
  /\ pc' = "reap"
  /\ UNCHANGED <<jobs, item, ran, running, exceptions, thread, owner, cur, result,
                 flushes, started, raised, raisedNow, unmet, born, inrun, aborted, sink, notified>>

\* Reap leaving flush() on a failed assertion without the finally of line 617.
ReapKeepsLock ==
  /\ pc = "reap"
  /\ LET f == FlushTerminated(running, <<>>, ran) IN
       /\ running' = f.running
       /\ ran' = f.ran
       /\ sink' = IF sink.on THEN ProgressUpdate(sink, f.updates) ELSE sink
       /\ IF f.ok
          THEN /\ pc' = "scan"
               /\ UNCHANGED <<owner, result>>
          ELSE /\ pc' = "idle"
               /\ owner' = owner
               /\ result' = Outcome("AssertNotRan", 0)
  /\ bare' = Unlocked({"running", "ran"}, owner = "ctl")
  /\ UNCHANGED <<jobs, item, queued, exceptions, thread, cur, flushes, started,
                 raised, raisedNow, unmet, born, inrun, aborted, seen, doomed, notified>>

\* flush, line 590: _flush_terminated_threads (lines 629-643).  A failed
\* assertion leaves flush() through the finally of lines 617-618.
Reap ==
  /\ pc = "reap"
  /\ LET f == FlushTerminated(running, <<>>, ran) IN
       /\ running' = f.running
       /\ ran' = f.ran
       /\ sink' = IF sink.on THEN ProgressUpdate(sink, f.updates) ELSE sink
       /\ IF f.ok
          THEN /\ pc' = "scan"
               /\ UNCHANGED <<owner, result>>
          ELSE /\ pc' = "idle"
               /\ owner' = "none"
               /\ result' = Outcome("AssertNotRan", 0)
  /\ bare' = Unlocked({"running", "ran"}, owner = "ctl")
  /\ UNCHANGED <<jobs, item, queued, exceptions, thread, cur, flushes, started,
                 raised, raisedNow, unmet, born, inrun, aborted, seen, doomed, notified>>

\* RunOneTask starting a _Worker thread whatever self.jobs is.
RunOneTaskThreaded(k) ==
  LET i == queued[k] IN
  /\ queued' = RemoveAt(queued, k)
  /\ started' = [started EXCEPT ![i] = @ + 1]
  /\ bare' = Unlocked({"queued", "running"}, owner = "ctl")
  /\ running' = Append(running, i)
  /\ thread' = [thread EXCEPT ![i] = "run"]
  /\ pc' = "check"
  /\ cur' = cur
  /\ UNCHANGED owner

\* _run_one_task (lines 645-658) of the item at index k of self.queued, which
\* line 605 pops: a new _Worker thread (jobs > 1), or the item's run() inside
\* the control thread.
RunOneTask(k) ==
  LET i == queued[k] IN
  /\ queued' = RemoveAt(queued, k)
  /\ started' = [started EXCEPT ![i] = @ + 1]
  /\ bare' = Unlocked(IF jobs > 1 THEN {"queued", "running"} ELSE {"queued"}, owner = "ctl")
  /\ IF jobs > 1
     THEN /\ running' = Append(running, i)
          /\ thread' = [thread EXCEPT ![i] = "run"]
          /\ pc' = "check"
          /\ cur' = cur
     ELSE /\ pc' = "sync"
          /\ cur' = i
          /\ UNCHANGED <<running, thread>>
  /\ UNCHANGED owner

\* WaitOrLeave with a wait that keeps ready_cond.
WaitKeepsLock ==
  /\ IF Drained THEN pc' = "post" /\ owner' = "none" ELSE pc' = "wait" /\ owner' = owner
  /\ UNCHANGED <<queued, started, running, thread, cur, bare>>

\* flush, lines 611-615: done, or wait on ready_cond (which releases it).
WaitOrLeave ==
  /\ IF Drained THEN pc' = "post" ELSE pc' = "wait"
  /\ owner' = "none"
  /\ UNCHANGED <<queued, started, running, thread, cur, bare>>

\* flush, lines 591-615: start the first item that can run and loop again, or
\* break out of the inner loop.
Scan ==
  /\ pc = "scan"
  /\ IF CannotStart \/ FirstReady = 0
     THEN WaitOrLeave
     ELSE RunOneTask(FirstReady)
  /\ UNCHANGED <<jobs, item, ran, exceptions, result, flushes, raised, raisedNow,
                 unmet, born, inrun, aborted, sink, seen, doomed, notified>>

\* Wake for a wait without timeout: only a notification ends it.
WakeOnNotifyOnly ==
  /\ pc = "wait"
  /\ owner = "none"
  /\ notified
  /\ owner' = "ctl"
  /\ pc' = "check"
  /\ notified' = FALSE
  /\ UNCHANGED <<jobs, item, queued, ran, running, exceptions, thread, cur, result,
                 flushes, started, raised, raisedNow, unmet, born, inrun, bare, aborted, sink, seen, doomed>>

\* flush, line 615: ready_cond.wait(10) returns, on a notification or on its
\* timeout, once it has ready_cond again.
Wake ==
  /\ pc = "wait"
  /\ owner = "none"
  /\ notified \/ WaitTimedOut
  /\ owner' = "ctl"
  /\ pc' = "check"
  /\ notified' = FALSE
  /\ UNCHANGED <<jobs, item, queued, ran, running, exceptions, thread, cur, result,
                 flushes, started, raised, raisedNow, unmet, born, inrun, bare, aborted, sink, seen, doomed>>

\* Post with progress.end() called before the test of self.exceptions.
PostEndsAlways ==
  /\ pc = "post"
  /\ pc' = "idle"
  /\ sink' = IF sink.on THEN ProgressEnd(sink) ELSE sink
  /\ IF running # <<>>
     THEN /\ result' = Outcome("AssertNotRunning", 0)
          /\ UNCHANGED <<exceptions, bare>>
     ELSE IF ExceptionLogged
          THEN /\ result' = Outcome("raise", ExceptionsGet)
               /\ exceptions' = Tail(exceptions)
               /\ bare' = Unlocked({"exceptions"}, owner = "ctl")
          ELSE /\ result' = Outcome("return", 0)
               /\ UNCHANGED <<exceptions, bare>>
  /\ UNCHANGED <<jobs, item, queued, ran, running, thread, owner, cur, flushes,
                 started, raised, raisedNow, unmet, born, inrun, aborted, seen, doomed, notified>>

\* Post emptying self.exceptions when it raises.
PostDropsAll ==
  /\ pc = "post"
  /\ pc' = "idle"
  /\ IF running # <<>>
     THEN /\ result' = Outcome("AssertNotRunning", 0)
          /\ UNCHANGED <<exceptions, bare, sink>>
     ELSE IF ExceptionLogged
          THEN /\ result' = Outcome("raise", ExceptionsGet)
               /\ exceptions' = <<>>
               /\ bare' = Unlocked({"exceptions"}, owner = "ctl")
               /\ UNCHANGED sink
          ELSE /\ result' = Outcome("return", 0)
               /\ sink' = IF sink.on THEN ProgressEnd(sink) ELSE sink
               /\ UNCHANGED <<exceptions, bare>>
  /\ UNCHANGED <<jobs, item, queued, ran, running, thread, owner, cur, flushes,
                 started, raised, raisedNow, unmet, born, inrun, aborted, seen, doomed, notified>>

\* flush, lines 620-627: after the loop.
Post ==
  /\ pc = "post"
  /\ pc' = "idle"
  /\ IF running # <<>>
     THEN /\ result' = Outcome("AssertNotRunning", 0)
          /\ UNCHANGED <<exceptions, bare, sink>>
     ELSE IF ExceptionLogged
          THEN /\ result' = Outcome("raise", ExceptionsGet)
               /\ exceptions' = Tail(exceptions)
               /\ bare' = Unlocked({"exceptions"}, owner = "ctl")
               /\ UNCHANGED sink
          ELSE /\ result' = Outcome("return", 0)
               /\ sink' = IF sink.on THEN ProgressEnd(sink) ELSE sink
               /\ UNCHANGED <<exceptions, bare>>
  /\ UNCHANGED <<jobs, item, queued, ran, running, thread, owner, cur, flushes,
                 started, raised, raisedNow, unmet, born, inrun, aborted, seen, doomed, notified>>

\* _run_one_task, lines 655-656 (jobs = 1): run() returned.
SyncReturn ==
  /\ pc = "sync"
  /\ ran' = Append(ran, item[cur].name)
  /\ bare' = Unlocked({"ran"}, owner = "ctl")
  /\ sink' = IF sink.on THEN ProgressUpdate(sink, 1) ELSE sink
  /\ pc' = "check"
  /\ cur' = 0
  /\ UNCHANGED <<jobs, item, queued, running, exceptions, thread, owner, result,
                 flushes, started, raised, raisedNow, unmet, born, inrun, aborted, seen, doomed, notified>>

\* SyncRaise with the exception caught and logged as _Worker.run does, the
\* loop going on.
SyncRaiseCaptured ==
  /\ pc = "sync"
  /\ pc' = "check"
  /\ cur' = 0
  /\ exceptions' = Append(exceptions, cur)
  /\ raised' = Append(raised, cur)
  /\ raisedNow' = raisedNow \cup {cur}
  /\ UNCHANGED <<jobs, item, queued, ran, running, thread, owner, result, flushes,
                 started, unmet, born, inrun, bare, aborted, sink, seen, doomed, notified>>

\* SyncRaise with the name of the item recorded in self.ran, as the reap step
\* does for a worker.
SyncRaiseRecorded ==
  /\ pc = "sync"
  /\ pc' = "idle"
  /\ owner' = "none"
  /\ result' = Outcome("propagate", cur)
  /\ cur' = 0
  /\ ran' = Append(ran, item[cur].name)
  /\ raised' = Append(raised, cur)
  /\ raisedNow' = raisedNow \cup {cur}
  /\ UNCHANGED <<jobs, item, queued, running, exceptions, thread, flushes,
                 started, unmet, born, inrun, bare, aborted, sink, seen, doomed, notified>>

\* _run_one_task, line 655 (jobs = 1): run() raised; nothing catches it and
\* flush() ends through the finally of lines 617-618.
SyncRaise ==
  /\ pc = "sync"
  /\ pc' = "idle"
  /\ owner' = "none"
  /\ result' = Outcome("propagate", cur)
  /\ cur' = 0
  /\ raised' = Append(raised, cur)
  /\ raisedNow' = raisedNow \cup {cur}
  /\ UNCHANGED <<jobs, item, queued, ran, running, exceptions, thread, flushes,
                 started, unmet, born, inrun, bare, aborted, sink, seen, doomed, notified>>

\* _Worker.run, line 675: the item's run() returned.
ItemReturn(i) ==
  /\ thread[i] = "run"
  /\ thread' = [thread EXCEPT ![i] = "notify"]
  /\ UNCHANGED <<jobs, item, queued, ran, running, exceptions, owner, pc, cur,
                 result, flushes, started, raised, raisedNow, unmet, born, inrun, bare, aborted, sink, seen, doomed, notified>>

\* _Worker.run, lines 675-680: the item's run() raised an Exception, which is
\* put into work_queue.exceptions.
ItemRaise(i) ==
  /\ thread[i] = "run"
  /\ thread' = [thread EXCEPT ![i] = "notify"]
  /\ exceptions' = ExceptionsPut(i)
  /\ raised' = Append(raised, i)
  /\ raisedNow' = raisedNow \cup {i}
  /\ unmet' = unmet \cup {j \in Range(queued) : ~Ready(j)}
  /\ bare' = Unlocked({"exceptions"}, FALSE)
  /\ UNCHANGED <<jobs, item, queued, ran, running, owner, pc, cur, result,
                 flushes, started, born, inrun, aborted, sink, seen, doomed, notified>>

\* _Worker.run, lines 683-687: take ready_cond, notifyAll, release.
Notify(i) ==
  /\ thread[i] = "notify"
  /\ owner = "none"
  /\ thread' = [thread EXCEPT ![i] = "ending"]
  /\ notified' = NotifyAll
  /\ UNCHANGED <<jobs, item, queued, ran, running, exceptions, owner, pc, cur,
                 result, flushes, started, raised, raisedNow, unmet, born, inrun, bare, aborted, sink, seen, doomed>>

\* The thread of _Worker.run ends: isAlive() is false from now on.
ThreadEnd(i) ==
  /\ thread[i] = "ending"
  /\ thread' = [thread EXCEPT ![i] = "dead"]
  /\ UNCHANGED <<jobs, item, queued, ran, running, exceptions, owner, pc, cur,
                 result, flushes, started, raised, raisedNow, unmet, born, inrun, bare, aborted, sink, seen, doomed, notified>>

Next ==
  \/ \E d \in NewItems : Enqueue(d)
  \/ \E i \in Items : \E d \in NewItems : WorkerEnqueue(i, d)
  \/ \E d \in NewItems : SyncEnqueue(d)
  \/ FlushBegin
  \/ Check
  \/ Reap
  \/ Scan
  \/ Wake
  \/ Post
  \/ SyncReturn
  \/ SyncRaise
  \/ \E i \in Items : ItemReturn(i)
  \/ \E i \in Items : ItemRaise(i)
  \/ \E i \in Items : Notify(i)
  \/ \E i \in Items : ThreadEnd(i)

Spec == Init /\ [][Next]_vars


\* What the scheduling guarantees: the control thread goes on whenever it can
\* (ready_cond.wait has a timeout), a run() that was started ends, and a worker
\* that ended its run() notifies and its thread ends.  A worker blocked on
\* ready_cond gets it during one of the control thread's waits, which release
\* it for up to 10 seconds each: strong fairness.  Nothing obliges an item to
\* enqueue, nor the program to call enqueue() or flush().
Fairness ==
  /\ WF_vars(Check) /\ WF_vars(Reap) /\ WF_vars(Scan) /\ WF_vars(Wake) /\ WF_vars(Post)
  /\ WF_vars(SyncReturn \/ SyncRaise)
  /\ \A i \in Ids : WF_vars(ItemReturn(i) \/ ItemRaise(i))
  /\ \A i \in Ids : SF_vars(Notify(i))
  /\ \A i \in Ids : WF_vars(ThreadEnd(i))

FairSpec == Spec /\ Fairness

\* A queue constructed with a Progress instance.
InitProgress == InitQueue(Ids, TRUE)

SpecProgress == InitProgress /\ [][Next]_vars

\* _Worker.run, line 675: the item's run() raised an exception that is not an
\* Exception (SystemExit, KeyboardInterrupt, GeneratorExit, or a string or
\* old-style class instance).  `except Exception` does not catch it: nothing
\* is put into work_queue.exceptions, lines 681-687 are skipped and the
\* thread ends.
ItemAbort(i) ==
  /\ thread[i] = "run"
  /\ thread' = [thread EXCEPT ![i] = "ending"]
  /\ aborted' = aborted \cup {i}
  /\ UNCHANGED <<jobs, item, queued, ran, running, exceptions, owner, pc, cur,
                 result, flushes, started, raised, raisedNow, unmet, born, inrun,
                 bare, sink, seen, doomed, notified>>

\* The queue with items whose run() may raise any kind of exception.
NextAbort ==
  \/ Next
  \/ \E i \in Items : ItemAbort(i)

SpecAbort == Init /\ [][NextAbort]_vars

\* The WorkItem objects a careless caller may hand to enqueue(): a new object
\* bearing the name of an item enqueued before.
DupItems == {[name |-> n, requirements |-> rs] : n \in {item[j].name : j \in Created}, rs \in {{}}}

\* The queue with callers that may enqueue two items of the same name.
NextDup ==
  \/ Next
  \/ \E d \in DupItems : Enqueue(d)

SpecDup == Init /\ [][NextDup]_vars

\* The WorkItem objects A, B, C, D (names 1 to 4) of the diamond: B and C
\* require A, D requires B and C.
DiamondItems ==
  <<[name |-> 1, requirements |-> {}],
    [name |-> 2, requirements |-> {1}],
    [name |-> 3, requirements |-> {1}],
    [name |-> 4, requirements |-> {2, 3}]>>

\* ExecutionQueue(2, None) for the four items of the diamond.
InitDiamond ==
  /\ InitQueue(DOMAIN DiamondItems, FALSE)
  /\ jobs = 2

\* The program enqueues A, B, C, D in that order and then calls flush(); no
\* run() raises and no run() enqueues.
NextDiamond ==
  \/ \E d \in {DiamondItems[k] : k \in {Cardinality(Created) + 1} \cap DOMAIN DiamondItems} : Enqueue(d)
  \/ (Created = DOMAIN DiamondItems /\ FlushBegin)
  \/ Check
  \/ Reap
  \/ Scan
  \/ Wake
  \/ Post
  \/ \E i \in Items : ItemReturn(i)
  \/ \E i \in Items : Notify(i)
  \/ \E i \in Items : ThreadEnd(i)

\* The scheduling of Fairness for the threads of the diamond.
FairnessDiamond ==
  /\ WF_vars(Check) /\ WF_vars(Reap) /\ WF_vars(Scan) /\ WF_vars(Wake) /\ WF_vars(Post)
  /\ \A i \in DOMAIN DiamondItems : WF_vars(ItemReturn(i))
  /\ \A i \in DOMAIN DiamondItems : SF_vars(Notify(i))
  /\ \A i \in DOMAIN DiamondItems : WF_vars(ThreadEnd(i))

SpecDiamond == InitDiamond /\ [][NextDiamond]_vars /\ FairnessDiamond

--------------------------------------------------------------------------
\* The run() of item j was started and is over.
RunOver(j) == started[j] > 0 /\ thread[j] # "run" /\ cur # j

\* The names of the items in S.
NamesOf(S) == {item[j].name : j \in S}

\* C1: at the moment the run() of an item is started (jobs = 1 or jobs > 1,
\* items possibly enqueued mid-run), every name in its requirements is in
\* `ran`, and the run() of every item bearing a required name is over.
C1_RequirementsRanAtStart ==
  [][\A i \in Items : started'[i] > started[i] =>
       /\ item[i].requirements \subseteq Range(ran)
       /\ item[i].requirements \subseteq NamesOf({j \in Created : RunOver(j)})]_vars

\* An item with two requirements is running on a worker.
C1_Witness ==
  \E i \in Items : /\ thread[i] = "run"
                 /\ Cardinality(item[i].requirements) = 2
                 /\ born[i] > 0

\* C2: len(running) <= jobs in every reachable state, and the number of items
\* whose run() is executing at the same time never exceeds jobs.
C2_RunningBounded ==
  /\ Len(running) <= jobs
  /\ Cardinality({i \in Items : thread[i] = "run"}) + (IF pc = "sync" THEN 1 ELSE 0) <= jobs

\* jobs items are executing and a further item that could run stays queued.
C2_Witness ==
  /\ jobs > 1
  /\ Len(running) = jobs
  /\ \A k \in 1..Len(running) : thread[running[k]] = "run"
  /\ pc = "wait"
  /\ \E k \in 1..Len(queued) : Ready(queued[k])

\* The items that can ever run: the least set holding every item whose
\* requirements are names of items already in it.
RECURSIVE Runnable(_)
Runnable(D) ==
  LET more == {i \in Created \ D : item[i].requirements \subseteq NamesOf(D)} IN
  IF more = {} THEN D ELSE Runnable(D \cup more)

\* The dependency graph is acyclic and every requirement names an enqueued item.
GraphValid == Runnable({}) = Created

\* In `ran`, every name comes after all the requirements of its item.
LinearExtension ==
  \A k \in 1..Len(ran) : \A i \in Created :
    item[i].name = ran[k] =>
      \A r \in item[i].requirements : \E j \in 1..(k - 1) : ran[j] = r

\* Every enqueued item was started exactly once and `ran` holds exactly the
\* names of the enqueued items.
AllRanOnce ==
  /\ \A i \in Created : started[i] = 1
  /\ Range(ran) = NamesOf(Created)
  /\ Len(ran) = Cardinality(Created)

\* C3: with jobs > 1, an acyclic graph whose requirements all name enqueued
\* items and no item raising, a flush() in progress leads to a normal return
\* with every item started exactly once and `ran` holding exactly the names of
\* all enqueued items (or to a state where an item raised or a newly enqueued
\* item made the graph invalid).
C3_ParallelFlushReturns ==
  (jobs > 1 /\ pc # "idle" /\ GraphValid /\ raised = <<>>)
    ~> (\/ pc = "idle" /\ result.kind = "return" /\ AllRanOnce
        \/ ~GraphValid
        \/ raised # <<>>)

\* A flush() with jobs > 1 returned normally after running three items, one of
\* them enqueued during the flush, with requirements among them.
C3_Witness ==
  /\ jobs > 1
  /\ pc = "idle"
  /\ result.kind = "return"
  /\ raised = <<>>
  /\ Len(ran) = 3
  /\ AllRanOnce
  /\ \E i \in Created : item[i].requirements # {} /\ born[i] = 1
  /\ flushes = 1

\* C4: with jobs = 1, no item raising and an acyclic graph whose requirements
\* all name enqueued items, flush() never waits and leaves its loop to return
\* normally with every item run exactly once; the names in `ran` are in an
\* order where each item comes after all of its requirements.
C4_SyncRunsAllInOrder ==
  (jobs = 1 /\ raised = <<>>) =>
    /\ LinearExtension
    /\ \A i \in Created : started[i] <= 1
    /\ GraphValid => pc # "wait"
    /\ pc = "post" => queued = <<>> /\ running = <<>> /\ exceptions = <<>> /\ AllRanOnce
    /\ pc = "idle" => result.kind \in {"none", "return"}

\* A flush() with jobs = 1 ran three items in an order other than the order
\* they were enqueued in.
C4_Witness ==
  /\ jobs = 1
  /\ pc = "idle"
  /\ result.kind = "return"
  /\ raised = <<>>
  /\ Len(ran) = 3
  /\ ran[1] # 1
  /\ AllRanOnce

\* C5: with jobs > 1, once `exceptions` is non-empty no item is moved from
\* `queued` to `running` any more.
C5_NoStartOnceFailureLogged ==
  [][(jobs > 1 /\ exceptions # <<>>) => started' = started]_vars

C7_UnmetNeverStarted == \A i \in unmet : started[i] = 0

\* Items X = 1 (no requirements) and Y = 2 (requires X), both enqueued before
\* the first flush() and no other item; the run() of X raised.
XYScenario ==
  /\ jobs > 1
  /\ Created = {1, 2}
  /\ item[1].requirements = {}
  /\ item[2].requirements = {1}
  /\ born[1] = 0
  /\ born[2] = 0
  /\ 1 \in Range(raised)

C9_SyncRaisePropagates ==
  [][(jobs = 1 /\ raised' # raised) =>
       /\ pc' = "idle"
       /\ result' = Outcome("propagate", cur)
       /\ exceptions' = <<>>
       /\ item[cur].name \notin Range(ran')
       /\ started' = started
       /\ queued' = queued
       /\ owner' = "none"]_vars

\* A flush() with jobs = 1 ended with the exception of an item after another
\* item ran, leaving in `queued` an item that could have run.
C9_Witness ==
  /\ jobs = 1
  /\ pc = "idle"
  /\ result.kind = "propagate"
  /\ ran # <<>>
  /\ \E k \in 1..Len(queued) : Ready(queued[k])

\* C10: when flush() has left its scheduling loop, `queued` and `running` are
\* empty and every worker thread has ended and was reaped; the assertion of
\* line 620 never fails.
C10_LoopLeftWhenDrained ==
  /\ result.kind # "AssertNotRunning"
  /\ pc = "post" =>
       /\ queued = <<>>
       /\ running = <<>>
       /\ \A i \in Items : thread[i] \in {"none", "dead"}
       /\ \A i \in Items : thread[i] = "dead" => item[i].name \in Range(ran)

\* flush() left its loop with a captured failure, a worker that did not raise
\* having been reaped after the one that raised.
C10_Witness ==
  /\ pc = "post"
  /\ exceptions # <<>>
  /\ \E k \in 1..Len(ran) : \E m \in (k + 1)..Len(ran) :
       /\ ran[k] \in NamesOf(Range(raised))
       /\ ran[m] \notin NamesOf(Range(raised))

\* C11: in a run where no item raised, flush() (jobs = 1 or jobs > 1) returns
\* normally only with `queued` empty and with every item that was enqueued
\* from inside the run() of another item started once and its name in `ran`.
C11_InRunItemsRunBeforeReturn ==
  [][(pc # "idle" /\ pc' = "idle" /\ result'.kind = "return" /\ raised = <<>>) =>
       /\ queued = <<>>
       /\ \A i \in inrun : started[i] = 1 /\ item[i].name \in Range(ran)]_vars

\* A flush() returned normally after it ran an item that a running item
\* enqueued, which requires an item enqueued before the flush().
C11_Witness ==
  /\ pc = "idle"
  /\ result.kind = "return"
  /\ raised = <<>>
  /\ flushes = 1
  /\ \E i \in inrun : /\ item[i].requirements # {}
                     /\ item[i].name \in Range(ran)
                     /\ \A r \in item[i].requirements : r \notin NamesOf(inrun)

\* C12: the name of an item whose run() raised is never in `ran` (jobs = 1 or
\* jobs > 1).
C12_RanOnlyIfReturned == \A i \in Range(raised) : item[i].name \notin Range(ran)

\* A flush() is in progress, no failure is in `exceptions` and `queued` holds
\* an item with a requirement that is not in `ran`.
Starved ==
  /\ pc \notin {"idle", "post"}
  /\ exceptions = <<>>
  /\ \E j \in Range(queued) : ~Ready(j)

\* C13: while no failure is captured, an item of `queued` with a requirement
\* missing from `ran` stays in `queued` and is not started, and a flush() with
\* such an item in `queued` neither leaves its loop nor ends, unless a run()
\* raises at that step; the control thread goes on waiting and scanning for as
\* long as that lasts.
C13_StarvedFlushNeverEnds ==
  /\ [][(exceptions = <<>> /\ raised' = raised) =>
          /\ \A j \in Range(queued) : ~Ready(j) => (j \in Range(queued') /\ started'[j] = started[j])
          /\ Starved => (pc' \notin {"idle", "post"} /\ result' = result)]_vars
  /\ Starved ~> (pc = "wait" \/ ~Starved)
  /\ (Starved /\ pc = "wait") ~> (pc = "scan" \/ ~Starved)

\* The control thread waits with nothing running and nothing captured, an
\* item whose requirement names no enqueued item being left in `queued`.
C13_Witness ==
  /\ pc = "wait"
  /\ running = <<>>
  /\ exceptions = <<>>
  /\ ran # <<>>
  /\ \E j \in Range(queued) : \E r \in item[j].requirements : r \notin NamesOf(Created)

\* C14: with jobs > 1, a flush() in progress with a failure in `exceptions`
\* eventually ends by raising a captured failure.
C14_CapturedFailureEndsFlush ==
  (jobs > 1 /\ pc # "idle" /\ exceptions # <<>>)
    ~> (pc = "idle" /\ result.kind = "raise")

\* A flush() with jobs > 1 raised a captured failure after it discarded an
\* item whose requirements can never be met.
C14_Witness ==
  /\ jobs > 1
  /\ pc = "idle"
  /\ result.kind = "raise"
  /\ \E j \in unmet : /\ started[j] = 0
                     /\ j \notin Range(queued)
                     /\ j \notin Runnable({})

\* C15: in the diamond with jobs = 2, while the name of A is not in `ran` no
\* run() other than that of A was started; D is started only with the names
\* of B and C in `ran`; no item is started twice; and a flush() in progress
\* leads to a normal return with `ran` holding exactly the four names.
C15_DiamondOrder ==
  /\ [](1 \notin Range(ran) => \A j \in {2, 3, 4} : started[j] = 0)
  /\ [](started[4] > 0 => {2, 3} \subseteq Range(ran))
  /\ [](\A j \in Items : started[j] <= 1)
  /\ (pc # "idle") ~> (/\ pc = "idle"
                       /\ result.kind = "return"
                       /\ Range(ran) = {1, 2, 3, 4}
                       /\ Len(ran) = 4)

\* The run() of B and the run() of C are executing at the same time.
C15_Witness ==
  /\ Created = {1, 2, 3, 4}
  /\ thread[2] = "run"
  /\ thread[3] = "run"
  /\ started[4] = 0

\* C16: `ran`, `running`, `queued` and `exceptions` are only ever changed by a
\* thread that holds ready_cond.
C16_ChangesUnderLock == bare = {}

\* C17: with jobs > 1 and no item having raised, every enqueued item is once
\* in `queued`, or once in `running`, or by name once in `ran`, and in one of
\* them only; and whenever the control thread holds ready_cond it releases it
\* later, so that a worker calling enqueue() gets it.
C17_WorkerEnqueueSafe ==
  /\ [](jobs > 1 /\ raised = <<>> =>
          \A i \in Created :
            Cardinality({k \in 1..Len(queued) : queued[k] = i})
              + Cardinality({k \in 1..Len(running) : running[k] = i})
              + Cardinality({k \in 1..Len(ran) : ran[k] = item[i].name}) = 1)
  /\ (jobs > 1 /\ owner = "ctl") ~> (owner = "none")

\* An item enqueued by a running item is in `queued` while two workers run.
C17_Witness ==
  /\ jobs > 1
  /\ raised = <<>>
  /\ pc = "wait"
  /\ \E i \in inrun : i \in Range(queued)
  /\ Cardinality({i \in Items : thread[i] = "run"}) = 2

\* C18: with a progress sink, progress.end() is called by the step that ends a
\* flush() with a normal return, once, and by no other step; so after n
\* flush() calls it was called at most n times.
C18_EndOnceOnNormalReturn ==
  [][/\ sink'.ended # sink.ended =>
          (pc = "post" /\ pc' = "idle" /\ result'.kind = "return")
     /\ (pc # "idle" /\ pc' = "idle") =>
          sink'.ended = sink.ended + (IF result'.kind = "return" THEN 1 ELSE 0)]_vars

\* With a progress sink, a first flush() raised and a second flush() returned
\* normally: end() was called once.
C18_Witness ==
  /\ sink.on
  /\ flushes = 2
  /\ pc = "idle"
  /\ raised # <<>>
  /\ result.kind = "return"
  /\ sink.ended = 1

\* C19: with items of distinct names, no name is twice in `ran` and the
\* assertion of line 641 never fails (jobs = 1 or jobs > 1).
C19_RanHasNoDuplicate ==
  /\ \A k \in 1..Len(ran) : \A m \in 1..Len(ran) : ran[k] = ran[m] => k = m
  /\ result.kind # "AssertNotRan"

\* Three names are in `ran`, one of them that of an item whose run() raised on
\* a worker.
C19_Witness ==
  /\ Len(ran) = 3
  /\ \E i \in Range(raised) : item[i].name \in Range(ran)

\* C20: with jobs > 1, there is no flush() that returns normally after the
\* run() of an item ended its worker with an exception nothing caught, the
\* item was reaped into `ran` and an item requiring it was started.
C20_NoAbortTakenForSuccess ==
  ~(/\ pc = "idle"
    /\ result.kind = "return"
    /\ exceptions = <<>>
    /\ \E i \in aborted :
         /\ item[i].name \in Range(ran)
         /\ \E j \in Created : item[i].name \in item[j].requirements /\ started[j] > 0)

\* C21: the item a step starts is the one at the lowest position of `queued`
\* among those whose requirements are all in `ran`: every item before it in
\* `queued` has a requirement missing from `ran`, and the items left keep
\* their order.
C21_DispatchInEnqueueOrder ==
  [][\A k \in 1..Len(queued) :
       started'[queued[k]] > started[queued[k]] =>
         /\ Ready(queued[k])
         /\ \A j \in 1..(k - 1) : ~Ready(queued[j])
         /\ queued' = RemoveAt(queued, k)]_vars

\* An item is running on a worker, started ahead of an item enqueued before
\* it that has a requirement missing from `ran` and is still in `queued`; the
\* item enqueued first ran before both.
C21_Witness ==
  \E i \in Items : \E j \in Range(queued) :
    /\ thread[i] = "run"
    /\ born[i] = 0 /\ born[j] = 0
    /\ j < i /\ ~Ready(j)
    /\ ran = <<1>>

\* C22: with jobs > 1, once the flush() in progress has seen `exceptions`
\* non-empty no item is started; in each pass `queued` is empty from the test
\* of line 587 on, whatever a running item enqueued in between; and an item
\* that was in `queued` after the failure was seen is never started and its
\* name is never in `ran`.
C22_SeenFailureDiscardsQueue ==
  /\ [][(jobs > 1 /\ FailureSeen) => started' = started]_vars
  /\ [](jobs > 1 /\ FailureSeen /\ pc \in {"reap", "scan", "post"} => queued = <<>>)
  /\ [](jobs > 1 => \A i \in doomed : started[i] = 0 /\ item[i].name \notin Range(ran))

\* The control thread saw a failure and reaped the worker that raised; it
\* waits, with a slot free, for a worker whose item has since enqueued an item
\* that could run.
C22_Witness ==
  /\ jobs > 1
  /\ FailureSeen
  /\ pc = "wait"
  /\ \E i \in Range(raised) : item[i].name \in Range(ran)
  /\ \E i \in doomed \cap Range(queued) : Ready(i) /\ i \in inrun
  /\ Len(running) < jobs

\* C23: no item's run() is started more than once; an item whose run() raised
\* is not in `queued` and not running again, raised once, and with jobs > 1
\* the entries of `exceptions` are the failures not yet raised by flush(), one
\* for each item.
C23_NoRetry ==
  /\ \A i \in Items : started[i] <= 1
  /\ \A i \in Range(raised) : i \notin Range(queued) /\ thread[i] # "run" /\ cur # i
  /\ \A k \in 1..Len(raised) : \A m \in 1..Len(raised) : raised[k] = raised[m] => k = m
  /\ jobs = 1 => exceptions = <<>>
  /\ jobs > 1 =>
       /\ Len(exceptions) <= Len(raised)
       /\ exceptions = SubSeq(raised, (Len(raised) - Len(exceptions)) + 1, Len(raised))

\* A second flush() is in progress after a first one raised the failure of an
\* item: it runs an item enqueued since, and the failed item was started once.
C23_Witness ==
  /\ jobs > 1
  /\ flushes = 2
  /\ Len(raised) = 1
  /\ exceptions = <<>>
  /\ started[raised[1]] = 1
  /\ \E i \in Items : born[i] = 1 /\ thread[i] = "run" /\ item[raised[1]].name \in item[i].requirements

\* C24: on a queue with a progress sink, after an enqueue() made before the
\* first flush() the total of the sink is len(queued) + len(running) +
\* len(ran), the number of items enqueued so far.
C24_TotalIsEnqueuedCount ==
  [][(sink.on /\ flushes = 0 /\ Len(queued') > Len(queued)) =>
       sink'.total = (Len(queued') + Len(running')) + Len(ran')]_vars

\* C25: with a progress sink and jobs > 1, a reap step adds to the count of
\* the sink one for each terminated worker whose item's run() returned, and
\* nothing for a worker whose item's run() raised.
C25_UpdateOnlyOnSuccess ==
  [][(sink.on /\ jobs > 1 /\ pc = "reap") =>
       sink'.done = sink.done
         + Cardinality({i \in Range(running) : ~IsAlive(i) /\ i \notin Range(raised)})]_vars

\* C26: with jobs = 1, `running` is empty and no _Worker thread exists in any
\* reachable state; a step that starts an item leaves the control thread
\* inside that item's run(), holding ready_cond; and the step by which run()
\* returns appends the item's name to `ran`.
C26_SyncIsSingleThreaded ==
  /\ [](jobs = 1 =>
          /\ running = <<>>
          /\ \A i \in Items : thread[i] = "none"
          /\ pc = "sync" => (owner = "ctl" /\ cur \in Created /\ started[cur] = 1)
          /\ \A i \in Items : started[i] > 0 =>
               (cur = i \/ item[i].name \in Range(ran) \/ i \in Range(raised)))
  /\ [][jobs = 1 =>
          /\ \A i \in Items : started'[i] > started[i] =>
               (pc' = "sync" /\ cur' = i /\ owner' = "ctl")
          /\ (pc = "sync" /\ pc' # "sync" /\ raised' = raised) =>
               ran' = Append(ran, item[cur].name)]_vars

\* With jobs = 1 the control thread is inside the run() of the third item, the
\* first two having run, one of them enqueued by the other.
C26_Witness ==
  /\ jobs = 1
  /\ pc = "sync"
  /\ Len(ran) = 2
  /\ inrun # {}
  /\ owner = "ctl"

\* An item of `queued` has all its requirements in `ran` while fewer than
\* jobs threads are in `running`.
Dispatchable ==
  /\ Len(running) < jobs
  /\ \E k \in 1..Len(queued) : Ready(queued[k])

\* C27: with jobs > 1, at the moment the control thread enters
\* ready_cond.wait() either len(running) = jobs or no item of `queued` has all
\* its requirements in `ran`; and if a running item enqueues such an item
\* during the wait, the wait ends.
C27_NoIdleSlotAtWait ==
  /\ [][(jobs > 1 /\ pc # "wait" /\ pc' = "wait") =>
          (Len(running') = jobs \/ \A k \in 1..Len(queued') : ~Ready(queued'[k]))]_vars
  /\ [][(jobs > 1 /\ pc = "wait" /\ pc' = "wait" /\ ~Dispatchable /\ Dispatchable') =>
          notified']_vars
  /\ (jobs > 1 /\ pc = "wait" /\ Dispatchable) ~> (pc # "wait")

\* The control thread waits with a slot free while `queued` holds an item
\* with a requirement missing from `ran`, after it started every item that
\* could run.
C27_Witness ==
  /\ jobs > 1
  /\ pc = "wait"
  /\ exceptions = <<>>
  /\ Len(running) = 1
  /\ queued # <<>>
  /\ \A k \in 1..Len(queued) : ~Ready(queued[k])
  /\ ran # <<>>

\* C28: with jobs > 1, a worker whose thread has ended and that is still in
\* `running` is later removed from `running`, whether or not a notification
\* is pending for the control thread.
C28_EndedWorkerIsReaped ==
  \A i \in Ids :
    (jobs > 1 /\ thread[i] = "dead" /\ i \in Range(running)) ~> (i \notin Range(running))

\* The control thread waits with no notification pending: it consumed the
\* notification of the only worker, reaped nothing as the thread was still
\* alive, and the thread has ended since.
C28_Witness ==
  /\ jobs > 1
  /\ pc = "wait"
  /\ ~notified
  /\ queued = <<>>
  /\ Len(running) = 1
  /\ thread[running[1]] = "dead"

\* C29: whenever no flush() is in progress, and so after every way flush()
\* ends (return, raise of a captured failure, exception of an item run with
\* jobs = 1, failed assertion of the reap step), no thread holds ready_cond;
\* and the step that ends a flush() releases it.
C29_FlushReleasesLock ==
  /\ [](pc = "idle" => owner = "none")
  /\ [][(pc # "idle" /\ pc' = "idle") =>
          /\ owner = (IF pc = "post" THEN "none" ELSE "ctl")
          /\ owner' = "none"
          /\ result'.kind \in {"return", "raise", "propagate", "AssertNotRan"}]_vars

\* A flush() ended on the failed assertion of the reap step, two workers
\* having run items of the same name, and ready_cond is free.
C29_Witness ==
  /\ pc = "idle"
  /\ result.kind = "AssertNotRan"
  /\ owner = "none"
  /\ Cardinality(Created) = 2

\* C30: with jobs > 1, a flush() during which two or more items raised ends
\* by raising the first of these failures and leaves the others in
\* `exceptions`; a flush() begun with a failure left in `exceptions` starts no
\* item, has `queued` empty from the test of line 587 on, and ends by raising
\* the oldest failure left.
C30_LeftoverFailures ==
  /\ [][(jobs > 1 /\ pc # "idle" /\ pc' = "idle" /\ Cardinality(raisedNow) >= 2) =>
          /\ result' = Outcome("raise", raised[(Len(raised) - Cardinality(raisedNow)) + 1])
          /\ exceptions' = SubSeq(raised, (Len(raised) - Cardinality(raisedNow)) + 2, Len(raised))
          /\ Len(exceptions') = Cardinality(raisedNow) - 1]_vars
  /\ [][(jobs > 1 /\ pc # "idle" /\ raisedNow = {} /\ exceptions # <<>>) =>
          /\ started' = started
          /\ pc \in {"reap", "scan", "post"} => queued = <<>>
          /\ pc' = "idle" =>
               (result' = Outcome("raise", Head(exceptions)) /\ exceptions' = Tail(exceptions))]_vars

\* Two items failed during a first flush(), which raised the failure of the
\* first; a second flush() discarded an item enqueued in between, without
\* starting it, and raised the failure of the second.
C30_Witness ==
  /\ jobs > 1
  /\ flushes = 2
  /\ pc = "idle"
  /\ Len(raised) = 2
  /\ raisedNow = {}
  /\ result = Outcome("raise", raised[2])
  /\ exceptions = <<>>
  /\ \E i \in Created : born[i] = 1 /\ Ready(i) /\ started[i] = 0 /\ i \in doomed

\* The order of lines 597-606 computed from a list q of queued items and a
\* list r of names already run: again and again, the first item of q whose
\* requirements are all in r is taken out of q and its name put at the end
\* of r, until q has no such item.
RECURSIVE SyncOrder(_, _)
SyncOrder(q, r) ==
  LET ok == {k \in 1..Len(q) : item[q[k]].requirements \subseteq Range(r)} IN
  IF ok = {} THEN r
  ELSE LET k == CHOOSE m \in ok : \A n \in ok : m <= n IN
       SyncOrder(RemoveAt(q, k), Append(r, item[q[k]].name))

\* self.queued as the first flush() finds it: the items enqueued before it,
\* in the order they were enqueued.
FirstQueue == [k \in 1..Cardinality({i \in Created : born[i] = 0}) |-> k]

\* The sequence of names of the run() calls made so far with jobs = 1: `ran`
\* and the item being run.
RanOrRunning == IF pc = "sync" THEN Append(ran, item[cur].name) ELSE ran

\* C31: with jobs = 1 and no run() that enqueues, the sequence of the run()
\* calls of the first flush() begins the sequence SyncOrder gives for the
\* enqueue order and the requirement lists, and is the whole of it once the
\* scan finds no item to start; at every step of any flush() the sequence
\* still to come is the one SyncOrder gives for `queued` and `ran`.
C31_SyncOrderIsDetermined ==
  /\ [](jobs = 1 /\ inrun = {} /\ flushes = 1 =>
          LET o == SyncOrder(FirstQueue, <<>>) IN
          /\ Len(RanOrRunning) <= Len(o)
          /\ RanOrRunning = SubSeq(o, 1, Len(RanOrRunning))
          /\ (pc \in {"wait", "post"} \/ (pc = "idle" /\ result.kind = "return")) => ran = o)
  /\ [][(jobs = 1 /\ pc \notin {"idle", "post"} /\ raised' = raised /\ Len(queued') <= Len(queued)) =>
          SyncOrder(queued', RanOrRunning') = SyncOrder(queued, RanOrRunning)]_vars

\* With jobs = 1 and no run() that enqueued, the first flush() returned after
\* it ran three items in an order that is not the order of enqueue: the item
\* enqueued first ran last.
C31_Witness ==
  /\ jobs = 1
  /\ inrun = {}
  /\ flushes = 1
  /\ pc = "idle"
  /\ result.kind = "return"
  /\ ran = <<2, 3, 1>>
  /\ item[3].requirements = {2}

\* C32: with jobs = 1, an item whose run() raised was started once, is not put
\* back into `queued` and its name is not in `ran`, so that no item requiring
\* it is ever started; the flush() it ended leaves `queued` as it was; and in
\* a later flush() every item of `queued` whose requirements are all in `ran`
\* is started, unless that flush() ends with the exception of an item.
C32_FlushResumesAfterSyncRaise ==
  /\ [](jobs = 1 =>
          /\ \A i \in Range(raised) :
               /\ started[i] = 1
               /\ item[i].name \notin Range(ran)
               /\ i \notin Range(queued)
               /\ cur # i
          /\ \A j \in Items : started[j] > 0 =>
               item[j].requirements \cap NamesOf(Range(raised)) = {})
  /\ [][(jobs = 1 /\ raised' # raised) => queued' = queued]_vars
  /\ \A i \in Ids :
       (jobs = 1 /\ raised # <<>> /\ raisedNow = {} /\ pc # "idle" /\ i \in Range(queued) /\ Ready(i))
         ~> (started[i] = 1 \/ (pc = "idle" /\ result.kind = "propagate"))

\* With jobs = 1 the first flush() ended with the exception of the first
\* item it started; the second flush() ran an item that was left in `queued`
\* and now waits, the item that requires the failed one not started.
C32_Witness ==
  /\ jobs = 1
  /\ flushes = 2
  /\ raised = <<1>>
  /\ item[1].requirements = {}
  /\ born[2] = 0 /\ born[3] = 0
  /\ ran = <<2>>
  /\ queued = <<3>>
  /\ item[3].requirements = {1}
  /\ started[3] = 0
  /\ pc = "wait"

\* Two different WorkItem objects bear the same name.
SameName(i, j) == i # j /\ item[i].name # 0 /\ item[i].name = item[j].name

\* The number of times the name n is in `ran`.
Occurrences(n) == Cardinality({k \in 1..Len(ran) : ran[k] = n})

\* The reap step finds in `running` an ended thread whose item bears the name
\* of another item that is in `ran` already or gets there in the same step.
DupReaped ==
  \E j \in Range(running) : \E i \in Created :
    /\ SameName(i, j)
    /\ ~IsAlive(j)
    /\ started[i] > 0
    /\ item[i].name \in Range(ran) \/ (i \in Range(running) /\ ~IsAlive(i))

\* C33: when callers enqueue items of the same name, with jobs = 1 each of
\* them that has run puts the name into `ran` once more and no assertion
\* fails; with jobs > 1 no name is twice in `ran`, and the reap step that
\* finds the ended worker of the second of two items of one name fails the
\* assertion of line 641, which ends the flush(): it neither returns nor
\* raises a captured failure; the assertion fails in no other case.
C33_DuplicateNames ==
  /\ [](jobs = 1 =>
          /\ result.kind # "AssertNotRan"
          /\ \A i \in Created :
               Occurrences(item[i].name) =
                 Cardinality({j \in Created : /\ item[j].name = item[i].name
                                              /\ started[j] > 0
                                              /\ cur # j
                                              /\ j \notin Range(raised)}))
  /\ [](jobs > 1 => \A i \in Created : Occurrences(item[i].name) <= 1)
  /\ [][(jobs > 1 /\ pc = "reap" /\ pc' # "reap") =>
          /\ DupReaped => (pc' = "idle" /\ result' = Outcome("AssertNotRan", 0))
          /\ ~DupReaped => (pc' = "scan" /\ result' = result)]_vars

\* With jobs > 1 two items of the same name both ran on workers; the reap of
\* the second failed the assertion and ended the flush(), the name being once
\* in `ran`.
C33_Witness ==
  /\ jobs > 1
  /\ pc = "idle"
  /\ result.kind = "AssertNotRan"
  /\ \E i \in Created : \E j \in Created :
       /\ SameName(i, j)
       /\ thread[i] = "dead"
       /\ thread[j] = "dead"
       /\ ran = <<item[i].name>>

==========================================================================
